---- MODULE Spec2Model ----
(***************************************************************************)
(* Model of ethereum/contract_backend.go: contractBackend, a wrapper of    *)
(* the go-ethereum client that tracks the account nonce locally and caches *)
(* a marked-up, capped gas price.  The type is documented as not           *)
(* thread-safe, so every method call is one atomic action.                 *)
(*                                                                         *)
(* The nonce fields and the gas-price fields are disjoint and no method    *)
(* touches both groups, so the two halves are explored by two              *)
(* specifications over the same variables: NonceSpec (PendingNonceAt,      *)
(* SendTransaction) and GasSpec (SuggestGasPrice, the clock).              *)
(***************************************************************************)
EXTENDS Integers, FiniteSets, Sequences, TLC

VARIABLES
    localNonce,       \* cb.localNonce      (uint64)
    lastServerNonce,  \* cb.lastServerNonce (uint64)
    gasPrice,         \* cb.gasPrice        (*big.Int, Nil when unset)
    gasPriceUpdated,  \* cb.gasPriceUpdated (time.Time, in clock ticks)
    maxPrice,         \* cb.maxPrice        (*big.Int, Nil when no ceiling)
    now,              \* the monotonic clock read by time.Since / time.Now
    call,             \* the last completed call: method, input, delegate answer, result
    old,              \* the fields as they were when that call was entered
    hist              \* what the callers have observed so far

vars == << localNonce, lastServerNonce, gasPrice, gasPriceUpdated, maxPrice,
           now, call, old, hist >>

nonceVars == << localNonce, lastServerNonce >>
gasVars == << gasPrice, gasPriceUpdated, maxPrice, now >>

----------------------------------------------------------------------------
(* Bounds of the model *)

\* stand-in for math.MaxUint64: uint64 arithmetic wraps modulo MaxUint64 + 1
MaxUint64 == 63
\* largest of the small nonces the delegate and the callers use
MaxSmallNonce == 2
\* clock ticks in one minute (the resolution of the modelled clock)
TicksPerMinute == 2
\* last clock tick explored
MaxTime == 5

----------------------------------------------------------------------------
(* Constants of the program *)

maxNonceDrift == 50

errStrReplacementTx == "replacement transaction underpriced"

\* a nil pointer, a nil error, an absent value
Nil == -1
NoErr == "nil"
\* getTxLogger dereferences tx.To(): the call ends in a runtime panic
Panic == "panic: nil pointer dereference"

\* errors the delegate may answer with
DelegateErrs == { errStrReplacementTx,
                  "replacement transaction underpriced: retry",
                  "nonce too low" }

Wrap(x) == x % (MaxUint64 + 1)

Max(a, b) == IF a >= b THEN a ELSE b
Min(a, b) == IF a <= b THEN a ELSE b

\* nonces the delegate answers with: small ones, the ones around the drift
\* threshold below the top of the range, and the top of the range
ServerNonces ==
    (0 .. MaxSmallNonce)
    \cup ((MaxUint64 - maxNonceDrift - 1) .. (MaxUint64 - maxNonceDrift + 1))
    \cup { MaxUint64 - 1, MaxUint64 }

\* nonces of the transactions callers send
TxNonces == (0 .. MaxSmallNonce) \cup ((MaxUint64 - 2) .. MaxUint64)

\* base suggestions of the delegate and the configurable ceilings
GasSuggestions == { 9, 10, 90, 91, 95 }
MaxPrices == { Nil, 10, 100 }

NoCall == [ op |-> "none", tx |-> Nil, to |-> "nil", dret |-> Nil,
            dcalls |-> 0, ret |-> Nil, err |-> NoErr ]

Fields == [ localNonce |-> localNonce, lastServerNonce |-> lastServerNonce,
            gasPrice |-> gasPrice, gasPriceUpdated |-> gasPriceUpdated,
            now |-> now, hist |-> hist ]

\* okAt, okPrice: time and result of the last successful SuggestGasPrice;
\* freshAt, freshPrice: time and result of the last successful
\* SuggestGasPrice that asked the delegate and was not capped
\* replNonce, replMin: nonce of the last send that failed with the
\* replacement error and min(localNonce, lastServerNonce) at that failure,
\* until a PendingNonceAt or a send succeeds;
\* sent: greatest nonce below MaxUint64 sent successfully since the last reset
NoHist == [ okAt |-> Nil, okPrice |-> Nil, freshAt |-> Nil, freshPrice |-> Nil,
            replNonce |-> Nil, replMin |-> Nil, sent |-> Nil ]

----------------------------------------------------------------------------
(* NewContractBackend *)

Init ==
    /\ localNonce = 0
    /\ lastServerNonce = 0
    /\ gasPrice = Nil
    /\ gasPriceUpdated = 0 - TicksPerMinute   \* time.Time{}: long before any now
    /\ maxPrice \in MaxPrices
    /\ now = 0
    /\ call = NoCall
    /\ hist = NoHist
    /\ old = Fields

----------------------------------------------------------------------------
(* The nonce helpers *)

\* resetNonce without its effect
resetNonceDropped(local, last) == local

\* resetNonce without the comparison
resetNonceUnconditional(local, last) == last

resetNonce(local, last) == IF last < local THEN last ELSE local

\* incrementNonce storing the nonce of the transaction itself
incrementNonceSameNonce(local, n) ==
    IF n > local THEN n ELSE local

\* incrementNonce without the comparison
incrementNonceUnguarded(local, n) == Wrap(n + 1)

incrementNonce(local, n) ==
    LET newNonce == Wrap(n + 1)
    IN  IF newNonce > local THEN newNonce ELSE local

\* isReplacementErr matching the beginning of the message only
isReplacementErrPrefix(e) ==
    e \in { errStrReplacementTx, "replacement transaction underpriced: retry" }

isReplacementErr(e) == e = errStrReplacementTx

\* the drift test without the localNonce > lastServerNonce guard
driftExceededUnguarded(local, last) ==
    Wrap(local - last) >= maxNonceDrift

\* the drift test with > in place of >=
driftExceededStrict(local, last) ==
    local > last /\ Wrap(local - last) > maxNonceDrift

\* second case of the switch in PendingNonceAt (uint64 subtraction)
driftExceeded(local, last) ==
    local > last /\ Wrap(local - last) >= maxNonceDrift

PendingBranch(local, last) ==
    CASE local = 0 -> "first"
      [] local # 0 /\ driftExceeded(local, last) -> "reset"
      [] OTHER -> "local"

\* PendingNonceAt returning the local nonce in every case
PendingResultAlwaysLocal(branch, local, last) == local

\* the nonce PendingNonceAt returns, given the fields after the switch
PendingResult(branch, local, last) ==
    CASE branch = "first" -> last
      [] branch = "reset" -> last
      [] OTHER -> local

----------------------------------------------------------------------------
(* PendingNonceAt: the delegate answers (s, e) *)

PendingNonceAt(s, e) ==
    LET branch == PendingBranch(localNonce, s)
        local1 == IF e = NoErr /\ branch = "reset"
                  THEN resetNonce(localNonce, s) ELSE localNonce
    IN  /\ old' = Fields
        /\ lastServerNonce' = s   \* assigned before err is looked at
        /\ localNonce' = local1
        /\ call' = [ op |-> "PendingNonceAt", tx |-> Nil, to |-> "nil",
                     dret |-> s, dcalls |-> 1,
                     ret |-> IF e = NoErr
                             THEN PendingResult(branch, local1, s) ELSE 0,
                     err |-> e ]
        /\ hist' =
             IF e # NoErr THEN hist
             ELSE [ hist EXCEPT
                      !.replNonce = Nil, !.replMin = Nil,
                      !.sent = IF localNonce # 0
                                  /\ localNonce - s >= maxNonceDrift
                               THEN Nil ELSE @ ]
        /\ UNCHANGED gasVars

(* SendTransaction: tx has nonce n and recipient to, the delegate answers e *)

SendTransaction(n, to, e) ==
    /\ old' = Fields
    /\ IF to = "nil"
       THEN \* getTxLogger: tx.To().Hex() on a nil *common.Address
            /\ call' = [ op |-> "SendTransaction", tx |-> n, to |-> to,
                         dret |-> Nil, dcalls |-> 0, ret |-> Nil,
                         err |-> Panic ]
            /\ UNCHANGED << nonceVars, hist >>
       ELSE /\ call' = [ op |-> "SendTransaction", tx |-> n, to |-> to,
                         dret |-> Nil, dcalls |-> 1, ret |-> Nil,
                         err |-> e ]
            /\ localNonce' =
                 IF e = NoErr THEN incrementNonce(localNonce, n)
                 ELSE IF isReplacementErr(e)
                      THEN resetNonce(localNonce, lastServerNonce)
                      ELSE localNonce
            /\ UNCHANGED lastServerNonce
            /\ hist' =
                 IF e = NoErr
                 THEN [ hist EXCEPT
                          !.replNonce = Nil, !.replMin = Nil,
                          !.sent = IF n < MaxUint64 /\ (@ = Nil \/ n > @)
                                   THEN n ELSE @ ]
                 ELSE IF e = "replacement transaction underpriced"
                 THEN [ hist EXCEPT
                          !.replNonce = n,
                          !.replMin = Min(localNonce, lastServerNonce),
                          !.sent = Nil ]
                 ELSE hist
    /\ UNCHANGED gasVars

PendingOk == \E s \in ServerNonces : PendingNonceAt(s, NoErr)
PendingFail == \E s \in ServerNonces, e \in DelegateErrs : PendingNonceAt(s, e)
SendOk == \E n \in TxNonces : SendTransaction(n, "addr", NoErr)
SendFail == \E n \in TxNonces, e \in DelegateErrs : SendTransaction(n, "addr", e)
SendNoRecipient ==
    \E n \in TxNonces, e \in DelegateErrs \cup { NoErr } :
        SendTransaction(n, "nil", e)

NonceNext == PendingOk \/ PendingFail \/ SendOk \/ SendFail \/ SendNoRecipient

NonceSpec == Init /\ [][NonceNext]_vars

----------------------------------------------------------------------------
(* The gas price helpers *)

\* utils.AddPercentage(gp, 10): gp is raised in place by 10 percent,
\* in integer arithmetic
AddPercentage(x, percentage) == x + ((x * percentage) \div 100)

\* the cache test comparing the wrong way round
cacheFreshInverted(gp, updated, t) ==
    gp # Nil /\ t - updated > TicksPerMinute

\* the cache test with <= in place of <
cacheFreshInclusive(gp, updated, t) ==
    gp # Nil /\ t - updated <= TicksPerMinute

\* cb.gasPrice != nil && time.Since(cb.gasPriceUpdated) < 1*time.Minute
cacheFresh(gp, updated, t) ==
    gp # Nil /\ t - updated < TicksPerMinute

\* the ceiling test that never fires
exceedsMaxNever(gp, max) == FALSE

\* the ceiling test comparing the wrong way round
exceedsMaxReversed(gp, max) == max # Nil /\ gp < max

\* cb.maxPrice != nil && gp.Cmp(cb.maxPrice) == 1
exceedsMax(gp, max) == max # Nil /\ gp > max

\* the cache after a query that stores the ceiling when it caps the price
cacheAfterQueryStoresCeiling(cur, e, gp, max, t) ==
    IF e # NoErr THEN cur
    ELSE IF exceedsMax(gp, max) THEN << max, t >>
    ELSE << gp, t >>

\* the cache after a query that forgets the cached price when the delegate fails
cacheAfterQueryClearsOnError(cur, e, gp, max, t) ==
    IF e # NoErr THEN << Nil, cur[2] >>
    ELSE IF exceedsMax(gp, max) THEN cur
    ELSE << gp, t >>

\* << cb.gasPrice, cb.gasPriceUpdated >> after the delegate was asked at time
\* t and answered e, gp being the marked-up suggestion: the two early returns
\* leave the fields alone, the last path stores gp and time.Now()
cacheAfterQuery(cur, e, gp, max, t) ==
    IF e # NoErr THEN cur
    ELSE IF exceedsMax(gp, max) THEN cur
    ELSE << gp, t >>

----------------------------------------------------------------------------
(* SuggestGasPrice: the delegate, when asked, answers (g, e) *)

SuggestGasPrice(g, e) ==
    LET gp == AddPercentage(g, 10)
        hit == cacheFresh(gasPrice, gasPriceUpdated, now)
        capped == ~hit /\ e = NoErr /\ exceedsMax(gp, maxPrice)
        cache == IF hit THEN << gasPrice, gasPriceUpdated >>
                 ELSE cacheAfterQuery(<< gasPrice, gasPriceUpdated >>, e, gp,
                                      maxPrice, now)
        result == IF hit THEN gasPrice
                  ELSE IF e # NoErr THEN Nil
                  ELSE IF capped THEN maxPrice
                  ELSE gp
    IN  /\ old' = Fields
        /\ gasPrice' = cache[1]
        /\ gasPriceUpdated' = cache[2]
        /\ call' = [ op |-> "SuggestGasPrice", tx |-> Nil, to |-> "nil",
                     dret |-> IF hit \/ e # NoErr THEN Nil ELSE g,
                     dcalls |-> IF hit THEN 0 ELSE 1,
                     ret |-> result,
                     err |-> IF hit THEN NoErr ELSE e ]
        /\ hist' =
             IF ~hit /\ e # NoErr THEN hist
             ELSE [ hist EXCEPT
                      !.okAt = now, !.okPrice = result,
                      !.freshAt = IF ~hit /\ result = (g * 110) \div 100
                                  THEN now ELSE @,
                      !.freshPrice = IF ~hit /\ result = (g * 110) \div 100
                                     THEN result ELSE @ ]
        /\ UNCHANGED << maxPrice, now, nonceVars >>

\* time passes between two calls
Tick ==
    /\ now < MaxTime
    /\ now' = now + 1
    /\ UNCHANGED << gasPrice, gasPriceUpdated, maxPrice, nonceVars,
                    call, old, hist >>

SuggestOk == \E g \in GasSuggestions : SuggestGasPrice(g, NoErr)
SuggestFail == \E e \in DelegateErrs : SuggestGasPrice(Nil, e)

GasNext == SuggestOk \/ SuggestFail \/ Tick

GasSpec == Init /\ [][GasNext]_vars

Next == NonceNext \/ GasNext

Spec == Init /\ [][Next]_vars

----------------------------------------------------------------------------
(* Properties of the nonce tracking, over the last completed call *)

PendingSucceeded == call.op = "PendingNonceAt" /\ call.err = NoErr
PendingFailed == call.op = "PendingNonceAt" /\ call.err # NoErr
SendSucceeded == call.op = "SendTransaction" /\ call.err = NoErr
SendReplacementFailed ==
    call.op = "SendTransaction" /\ call.err = errStrReplacementTx

\* C1 as stated: a successful PendingNonceAt entered with localNonce = 0
\* returns the server nonce and leaves localNonce equal to the server nonce.
C1_AdoptsServerNonce ==
    (PendingSucceeded /\ old.localNonce = 0)
        => (call.ret = call.dret /\ localNonce = call.dret)

\* C1, amended: a successful PendingNonceAt entered with localNonce = 0
\* returns the server nonce s and stores it in lastServerNonce, while
\* localNonce stays 0 (only a successful send moves it).
C1_BootstrapReturnsServerNonce ==
    (PendingSucceeded /\ old.localNonce = 0)
        => (call.ret = call.dret /\ lastServerNonce = call.dret
            /\ localNonce = 0)

C1_Witness ==
    /\ PendingSucceeded /\ old.localNonce = 0
    /\ call.dret > 0 /\ call.ret = call.dret /\ localNonce = 0

\* C2: a failed PendingNonceAt returns the delegate's error and leaves both
\* localNonce and lastServerNonce as they were.
C2_FailureLeavesNonceState ==
    PendingFailed
        => (call.err \in DelegateErrs
            /\ localNonce = old.localNonce
            /\ lastServerNonce = old.lastServerNonce)

\* C3: a successful PendingNonceAt entered with localNonce # 0 and
\* localNonce - s >= 50 returns s and leaves lastServerNonce = s and
\* localNonce = min(old localNonce, s) = s.
C3_DriftReset ==
    (PendingSucceeded /\ old.localNonce # 0
     /\ old.localNonce - call.dret >= maxNonceDrift)
        => (call.ret = call.dret /\ lastServerNonce = call.dret
            /\ localNonce = Min(old.localNonce, call.dret)
            /\ localNonce = call.dret)

C3_Witness ==
    /\ PendingSucceeded /\ old.localNonce # 0
    /\ old.localNonce - call.dret = maxNonceDrift
    /\ call.ret = call.dret /\ localNonce = call.dret

\* C4: a successful PendingNonceAt entered with localNonce # 0 and
\* localNonce < s + 50 (the server may be ahead) returns localNonce and
\* leaves localNonce unchanged.
C4_TrustLocal ==
    (PendingSucceeded /\ old.localNonce # 0
     /\ old.localNonce < call.dret + maxNonceDrift)
        => (call.ret = old.localNonce /\ localNonce = old.localNonce)

C4_Witness ==
    /\ PendingSucceeded /\ old.localNonce # 0
    /\ call.dret > old.localNonce + maxNonceDrift
    /\ call.ret = old.localNonce /\ localNonce = old.localNonce

\* C5 as stated: after a successful send of nonce n, localNonce is
\* max(old localNonce, n + 1), lastServerNonce is unchanged and localNonce
\* was not lowered.
C5_SendAdvancesToMax ==
    SendSucceeded
        => (localNonce = Max(old.localNonce, call.tx + 1)
            /\ lastServerNonce = old.lastServerNonce
            /\ localNonce >= old.localNonce)

\* C5, amended: after a successful send of nonce n below the largest uint64,
\* localNonce is max(old localNonce, n + 1); for n the largest uint64, n + 1
\* wraps to 0 and localNonce is unchanged; in both cases lastServerNonce is
\* unchanged and localNonce was not lowered.
C5_SendAdvancesToMaxBelowTop ==
    SendSucceeded
        => (/\ call.tx < MaxUint64
                => localNonce = Max(old.localNonce, call.tx + 1)
            /\ call.tx = MaxUint64 => localNonce = old.localNonce
            /\ lastServerNonce = old.lastServerNonce
            /\ localNonce >= old.localNonce)

C5_Witness ==
    /\ SendSucceeded /\ call.tx < MaxUint64
    /\ old.localNonce # 0 /\ call.tx + 1 > old.localNonce
    /\ localNonce = call.tx + 1

\* C6: a send failing with "replacement transaction underpriced" returns
\* that error and leaves localNonce = min(old localNonce, lastServerNonce),
\* lastServerNonce unchanged and localNonce not raised.
C6_ReplacementResets ==
    (call.op = "SendTransaction" /\ call.dcalls = 1
     /\ call.err = "replacement transaction underpriced")
        => (localNonce = Min(old.localNonce, old.lastServerNonce)
            /\ lastServerNonce = old.lastServerNonce
            /\ localNonce <= old.localNonce)

C6_Witness ==
    /\ SendReplacementFailed
    /\ old.lastServerNonce < old.localNonce
    /\ localNonce = old.lastServerNonce

\* a second state of the same case: the server nonce is ahead, nothing moves
C6_WitnessServerAhead ==
    /\ SendReplacementFailed
    /\ old.lastServerNonce > old.localNonce
    /\ localNonce = old.localNonce

\* C10: whenever a call leaves localNonce lower than it found it, the call
\* is a reset (a successful PendingNonceAt with localNonce # 0 and
\* localNonce - s >= 50, or a send that failed with "replacement
\* transaction underpriced") and the new localNonce equals lastServerNonce.
C10_OnlyResetLowers ==
    localNonce < old.localNonce
        => (/\ \/ /\ PendingSucceeded /\ old.localNonce # 0
                  /\ old.localNonce - call.dret >= maxNonceDrift
               \/ SendReplacementFailed
            /\ localNonce = lastServerNonce)

C10_Witness ==
    /\ localNonce < old.localNonce
    /\ SendReplacementFailed
    /\ localNonce = lastServerNonce

----------------------------------------------------------------------------
(* Properties of the gas price, over the last completed call *)

SuggestSucceeded == call.op = "SuggestGasPrice" /\ call.err = NoErr

\* C7: with a ceiling configured, every price a successful SuggestGasPrice
\* returns is <= the ceiling, on the delegate path, the capped path and the
\* cache path alike.
C7_NeverAboveCeiling ==
    (SuggestSucceeded /\ maxPrice # Nil) => call.ret <= maxPrice

\* a price served from the cache under a ceiling, after time has passed
C7_Witness ==
    /\ SuggestSucceeded /\ maxPrice # Nil
    /\ call.dcalls = 0 /\ old.now > old.gasPriceUpdated
    /\ call.ret <= maxPrice

\* C8 as stated: a SuggestGasPrice call made less than a minute after any
\* successful SuggestGasPrice call returns the value that call returned and
\* does not ask the delegate.
C8_RepeatsLastSuccess ==
    (call.op = "SuggestGasPrice" /\ old.hist.okAt # Nil
     /\ old.now - old.hist.okAt < TicksPerMinute)
        => (call.err = NoErr /\ call.ret = old.hist.okPrice
            /\ call.dcalls = 0)

\* C8, amended: a SuggestGasPrice call made less than a minute after a
\* successful call that asked the delegate and returned the marked-up price
\* (not the ceiling) returns the value that call returned and does not ask
\* the delegate.
C8_RepeatsLastFreshPrice ==
    (call.op = "SuggestGasPrice" /\ old.hist.freshAt # Nil
     /\ old.now - old.hist.freshAt < TicksPerMinute)
        => (call.err = NoErr /\ call.ret = old.hist.freshPrice
            /\ call.dcalls = 0)

C8_Witness ==
    /\ call.op = "SuggestGasPrice" /\ old.hist.freshAt # Nil
    /\ old.now > old.hist.freshAt
    /\ old.now - old.hist.freshAt < TicksPerMinute
    /\ call.ret = old.hist.freshPrice /\ call.dcalls = 0

\* C9: a SuggestGasPrice call that asks the delegate and gets g returns
\* floor(g * 110 / 100) when there is no ceiling or that value is <= the
\* ceiling, and the ceiling when that value is > the ceiling.
C9_MarkupOrCeiling ==
    (SuggestSucceeded /\ call.dcalls = 1)
        => LET marked == (call.dret * 110) \div 100
           IN  call.ret = IF maxPrice = Nil \/ marked <= maxPrice
                          THEN marked ELSE maxPrice

\* the marked-up price equals the ceiling and is returned as computed
C9_Witness ==
    /\ SuggestSucceeded /\ call.dcalls = 1
    /\ maxPrice # Nil /\ (call.dret * 110) \div 100 = maxPrice
    /\ call.ret = maxPrice /\ gasPrice = maxPrice /\ gasPriceUpdated = old.now

\* the marked-up price is above the ceiling and the ceiling is returned
C9_WitnessCapped ==
    /\ SuggestSucceeded /\ call.dcalls = 1
    /\ maxPrice # Nil /\ (call.dret * 110) \div 100 > maxPrice
    /\ call.ret = maxPrice

----------------------------------------------------------------------------
(* Further properties of SendTransaction and PendingNonceAt *)

\* C11: SendTransaction never panics: every call, also one for a transaction
\* without a recipient, ends with nil or with the delegate's error.
C11_SendNeverPanics ==
    call.op = "SendTransaction"
        => (call.err # Panic /\ call.err \in DelegateErrs \cup { NoErr })

\* C16: a send that the delegate fails with an error other than exactly
\* "replacement transaction underpriced" returns that error after a single
\* delegate call and leaves localNonce and lastServerNonce unchanged.
C16_OtherErrorsLeaveNonces ==
    (call.op = "SendTransaction"
     /\ call.err \in DelegateErrs \ { "replacement transaction underpriced" })
        => (call.dcalls = 1
            /\ localNonce = old.localNonce
            /\ lastServerNonce = old.lastServerNonce)

\* an error that only begins like the replacement error, in a state where a
\* reset would have lowered localNonce
C16_Witness ==
    /\ call.op = "SendTransaction"
    /\ call.err = "replacement transaction underpriced: retry"
    /\ old.lastServerNonce < old.localNonce
    /\ call.dcalls = 1
    /\ localNonce = old.localNonce

\* C17: right after a successful PendingNonceAt, with lastServerNonce the
\* delegate's answer, localNonce < lastServerNonce + 50 and the returned
\* nonce < lastServerNonce + 50.
C17_BoundedDrift ==
    PendingSucceeded
        => (/\ lastServerNonce = call.dret
            /\ localNonce < lastServerNonce + 50
            /\ call.ret < lastServerNonce + 50)

\* the local nonce is handed out at the largest distance allowed
C17_Witness ==
    /\ PendingSucceeded
    /\ old.localNonce = call.dret + 49
    /\ call.ret = old.localNonce /\ localNonce = old.localNonce

\* the local nonce was exactly 50 ahead and the server's answer is returned
C17_WitnessAtThreshold ==
    /\ PendingSucceeded
    /\ old.localNonce = call.dret + 50
    /\ call.ret = call.dret /\ localNonce = call.dret

----------------------------------------------------------------------------
(* Further properties of the gas price cache *)

\* the marked-up prices the delegate's suggestions lead to
MarkedUpPrices == { (g * 110) \div 100 : g \in GasSuggestions }

\* C13: a SuggestGasPrice call that returns the ceiling because the
\* marked-up price is above it leaves the cached price and its timestamp as
\* they were; a cached price is always a marked-up suggestion of the
\* delegate that was <= the ceiling.
C13_CeilingNeverCached ==
    /\ (SuggestSucceeded /\ call.dcalls = 1 /\ maxPrice # Nil
        /\ (call.dret * 110) \div 100 > maxPrice)
           => (call.ret = maxPrice
               /\ gasPrice = old.gasPrice
               /\ gasPriceUpdated = old.gasPriceUpdated)
    /\ gasPrice # Nil
           => (gasPrice \in MarkedUpPrices
               /\ (maxPrice = Nil \/ gasPrice <= maxPrice))

\* a capped call while an older, expired price is in the cache
C13_Witness ==
    /\ SuggestSucceeded /\ call.dcalls = 1 /\ maxPrice # Nil
    /\ (call.dret * 110) \div 100 > maxPrice
    /\ call.ret = maxPrice
    /\ old.gasPrice # Nil /\ gasPrice = old.gasPrice /\ gasPrice < maxPrice
    /\ gasPriceUpdated = old.gasPriceUpdated

\* C14: a call is answered from the cache, without the delegate, only when
\* the price was stored less than a minute before the call; the answer is
\* that price and the hit leaves the stored timestamp as it was.
C14_CacheOnlyWhileYoung ==
    (call.op = "SuggestGasPrice" /\ call.dcalls = 0)
        => (/\ old.hist.freshAt # Nil
            /\ old.now - old.hist.freshAt < TicksPerMinute
            /\ call.err = NoErr /\ call.ret = old.hist.freshPrice
            /\ old.gasPriceUpdated = old.hist.freshAt
            /\ gasPriceUpdated = old.gasPriceUpdated
            /\ gasPrice = old.gasPrice)

\* a hit on the last tick before the price expires
C14_Witness ==
    /\ call.op = "SuggestGasPrice" /\ call.dcalls = 0
    /\ old.now - old.hist.freshAt = TicksPerMinute - 1
    /\ old.now > old.hist.freshAt
    /\ call.ret = old.hist.freshPrice
    /\ gasPriceUpdated = old.hist.freshAt

\* a price exactly one minute old is not served: the delegate is asked
C14_WitnessExpired ==
    /\ call.op = "SuggestGasPrice" /\ call.dcalls = 1
    /\ old.gasPrice # Nil
    /\ old.now - old.gasPriceUpdated = TicksPerMinute

\* C15: when the delegate is asked and fails, the call returns the
\* delegate's error and no price, after a single delegate call, and the
\* cached price and its timestamp are unchanged.
C15_FailureLeavesCache ==
    (call.op = "SuggestGasPrice" /\ call.err # NoErr)
        => (/\ call.err \in DelegateErrs
            /\ call.ret = Nil
            /\ call.dcalls = 1
            /\ gasPrice = old.gasPrice
            /\ gasPriceUpdated = old.gasPriceUpdated)

\* the delegate fails while an expired price is in the cache
C15_Witness ==
    /\ call.op = "SuggestGasPrice" /\ call.err \in DelegateErrs
    /\ call.ret = Nil /\ call.dcalls = 1
    /\ old.gasPrice # Nil /\ gasPrice = old.gasPrice
    /\ gasPriceUpdated = old.gasPriceUpdated

----------------------------------------------------------------------------
(* Properties over several calls *)

\* C12 as stated: after a send of nonce n failed with "replacement
\* transaction underpriced", the next successful PendingNonceAt returns a
\* nonce different from n (checked here with no successful send in between).
C12_FreshNonceAfterReplacement ==
    (PendingSucceeded /\ old.hist.replNonce # Nil)
        => call.ret # old.hist.replNonce

\* C12, amended: after a send of nonce n failed with "replacement
\* transaction underpriced", with m = min(localNonce, lastServerNonce) at the
\* failure, the next successful PendingNonceAt (no send succeeding in
\* between) answers the server's nonce s or m, so its answer differs from n
\* whenever n is neither s nor m.
C12_AnswerIsServerOrResetNonce ==
    (PendingSucceeded /\ old.hist.replNonce # Nil)
        => (/\ call.ret \in { call.dret, old.hist.replMin }
            /\ old.hist.replNonce \notin { call.dret, old.hist.replMin }
                   => call.ret # old.hist.replNonce)

\* the failed nonce was ahead of the server, the reset pulled localNonce
\* down and the next query answers the lower nonce
C12_Witness ==
    /\ PendingSucceeded /\ old.hist.replNonce # Nil
    /\ old.hist.replMin # 0 /\ old.hist.replMin < old.hist.replNonce
    /\ call.dret # old.hist.replMin
    /\ call.ret = old.hist.replMin

\* C18: once a send of nonce n below the largest uint64 has succeeded, every
\* later successful PendingNonceAt returns a value > n, as long as no reset
\* (drift case or replacement failure) has happened since that send.
C18_NoReuseOfSentNonce ==
    (PendingSucceeded /\ hist.sent # Nil) => call.ret > hist.sent

\* the server's answer is not above the sent nonce and has changed since
\* the last query; the local nonce, one above the sent nonce, is returned
C18_Witness ==
    /\ PendingSucceeded /\ hist.sent # Nil
    /\ old.lastServerNonce # lastServerNonce
    /\ call.dret <= hist.sent
    /\ call.ret = hist.sent + 1

====
